---- MODULE Spec2Model ----
(***************************************************************************)
(* Model of core/analyzer.py (class SecurityAnalyzer) of the APK forensic  *)
(* toolkit: the risk scorer, the three sub-analyzers and full_analysis.    *)
(*                                                                         *)
(* Three specifications:                                                   *)
(*   SpecScore  calculate_risk_score run as its loop, one finding a step,  *)
(*              on bounded finding lists and on the 1000-CRITICAL list;    *)
(*   Spec       one SecurityAnalyzer instance called on one unmodified     *)
(*              project tree (analyze_manifest, analyze_java_code,         *)
(*              analyze_code, analyze_permissions, full_analysis);         *)
(*   SpecScan   the same calls on projects whose first source file is one  *)
(*              of a catalogue of sources and whose pattern catalog varies.*)
(***************************************************************************)
EXTENDS Integers, Sequences, FiniteSets, TLC

VARIABLES
    project,          \* the decompiled project tree on disk (never modified)
    vulnerabilities,  \* self.vulnerabilities
    security_issues,  \* self.security_issues
    patterns,         \* self.patterns
    lastCall,         \* the last call on the instance and its outcome
    prevRun,          \* when the last two calls were both full_analysis calls,
                      \* the outcome of the first of the two
    sc_pc,            \* calculate_risk_score: "idle", "loop" or "done"
    sc_vulns,         \* calculate_risk_score: its argument
    sc_i,             \* calculate_risk_score: findings consumed by the loop
    sc_score,         \* calculate_risk_score: the local variable score
    sc_ret,           \* calculate_risk_score: the value returned (when "done")
    sc_prev,          \* the value returned before the last append (sc_added > 0)
    sc_added          \* findings appended to the argument so far

analyzerVars == <<project, vulnerabilities, security_issues, patterns, lastCall, prevRun>>
scoreVars == <<sc_pc, sc_vulns, sc_i, sc_score, sc_ret, sc_prev, sc_added>>
vars == <<project, vulnerabilities, security_issues, patterns, lastCall, prevRun,
          sc_pc, sc_vulns, sc_i, sc_score, sc_ret, sc_prev, sc_added>>

None == "None"

(***************************************************************************)
(* Bounds.                                                                 *)
(***************************************************************************)
MaxRepeat == 8       \* longest run of one severity in a scored list
MaxAdd == 1          \* findings appended to a scored list
SyntheticSize == 1000

(***************************************************************************)
(* Generic helpers.                                                        *)
(***************************************************************************)
Min(a, b) == IF a <= b THEN a ELSE b

Repeat(x, n) == [i \in 1..n |-> x]

(***************************************************************************)
(* Risk scorer: calculate_risk_score.                                      *)
(***************************************************************************)
Severities == {"CRITICAL", "HIGH", "MEDIUM", "LOW", "INFO"}

severity_scores == [CRITICAL |-> 10, HIGH |-> 7, MEDIUM |-> 4, LOW |-> 2, INFO |-> 1]

\* dict.get(key, default)
DictGet(d, key, default) == IF key \in DOMAIN d THEN d[key] ELSE default

\* ScoreStep gone wrong: "score =" written for "score +=".
ScoreStepAssign(score, vuln) ==
    DictGet(severity_scores, DictGet(vuln, "severity", "INFO"), 1)

\* One iteration of the loop: severity = vuln.get('severity', 'INFO');
\* score += severity_scores.get(severity, 1)
ScoreStep(score, vuln) ==
    score + DictGet(severity_scores, DictGet(vuln, "severity", "INFO"), 1)

\* ScoreReturn gone wrong: the clamp forgotten.
ScoreReturnNoClamp(score) == score

\* return min(score, 100)
ScoreReturn(score) == Min(score, 100)

RECURSIVE ScoreLoop(_, _, _)
ScoreLoop(vulns, i, score) ==
    IF i > Len(vulns) THEN score
    ELSE ScoreLoop(vulns, i + 1, ScoreStep(score, vulns[i]))

\* calculate_risk_score as one call (used by full_analysis on its short lists).
calculate_risk_score(vulns) == ScoreReturn(ScoreLoop(vulns, 1, 0))

\* A finding that carries nothing but a severity.
Synth(sev) == [type |-> "SYNTHETIC", severity |-> sev]

\* The scored lists: two runs of one severity each, and the synthetic list
\* of 1000 CRITICAL findings.
ScoreInputs ==
    { Repeat(Synth(s1), k1) \o Repeat(Synth(s2), k2) :
        <<s1, k1, s2, k2>> \in Severities \X (0..MaxRepeat) \X Severities \X (0..MaxRepeat) }
    \cup { Repeat(Synth("CRITICAL"), SyntheticSize) }

ScoreIdle ==
    /\ sc_pc = "idle" /\ sc_vulns = <<>> /\ sc_i = 0 /\ sc_score = 0
    /\ sc_ret = 0 /\ sc_prev = 0 /\ sc_added = 0

\* calculate_risk_score(vulnerabilities) is entered: score = 0
ScoreCall(vulns) ==
    /\ sc_vulns' = vulns
    /\ sc_pc' = "loop"
    /\ sc_i' = 0
    /\ sc_score' = 0
    /\ sc_ret' = 0

\* for vuln in vulnerabilities: ...
ScoreIterate ==
    /\ sc_pc = "loop"
    /\ sc_i < Len(sc_vulns)
    /\ sc_i' = sc_i + 1
    /\ sc_score' = ScoreStep(sc_score, sc_vulns[sc_i + 1])
    /\ UNCHANGED <<sc_pc, sc_vulns, sc_ret, sc_prev, sc_added>>
    /\ UNCHANGED analyzerVars

\* the loop is exhausted: return min(score, 100)
ScoreFinish ==
    /\ sc_pc = "loop"
    /\ sc_i = Len(sc_vulns)
    /\ sc_pc' = "done"
    /\ sc_ret' = ScoreReturn(sc_score)
    /\ UNCHANGED <<sc_vulns, sc_i, sc_score, sc_prev, sc_added>>
    /\ UNCHANGED analyzerVars

\* The caller appends one more finding to the list and scores it again.
ScoreAppended ==
    /\ sc_pc = "done"
    /\ sc_added < MaxAdd
    /\ \E s \in Severities : ScoreCall(Append(sc_vulns, Synth(s)))
    /\ sc_prev' = sc_ret
    /\ sc_added' = sc_added + 1
    /\ UNCHANGED analyzerVars

(***************************************************************************)
(* Outcome of a call: a value returned, or an exception raised.            *)
(***************************************************************************)
Return(v) == [raised |-> "none", value |-> v]

Raise(e) == [raised |-> e]

Returned(out) == out.raised = "none"

(***************************************************************************)
(* The project tree.  A source line is a sequence of tokens; a file is a   *)
(* sequence of lines (content.split('\n')).                                *)
(***************************************************************************)
MaxFiles == 2        \* source files under <project>/java
MaxPerms == 1        \* permissions declared by the manifest

\* Paths relative to the scan root, in lexicographic order.
FilePaths == <<"A.java", "net/B.java", "ui/C.java", "ui/D.java">>

FileIds == 1..MaxFiles

\* file_path.relative_to(java_dir)
RelativePath(id) == FilePaths[id]

\* str(file_path): rglob yields paths that start with the directory scanned
FullPath(id) == "project/java/" \o FilePaths[id]

Whitespace == {" ", "\t"}

LoginSource ==
    << <<" ", "String", " ", "password", " ", "=", " ", "\"abc123\"", ";", " ">>,
       <<"int", " ", "x", " ", "=", " ", "0", ";">>,
       <<"\t", "String", " ", "u", "=", "\"http://x\"", ";", " ", "token", "=", "'t'", ";">> >>

BrowserSource ==
    << <<"WebView", " ", "w", ";">>,
       <<"w", ".", "setJavaScriptEnabled(true)", ";">>,
       <<"open", "(", "CAMERA", ")", ";">> >>

\* The one line  String password = "abc123";
PasswordOnlySource ==
    << <<"String", " ", "password", " ", "=", " ", "\"abc123\"", ";">> >>

\* Lines that one, two and three of the patterns match.
SecretsSource ==
    << <<"\t", "api_key", "=", "'t'">>,
       <<"PASSWORD", " ", "=", " ", "\"http://x\"", " ">>,
       <<"authToken", "=", "\"http://x\"", ";", "userPassword", "=", "'t'">>,
       <<"android:usesCleartextTraffic=\"true\"">> >>

\* Lines that no pattern matches: ==, an empty literal, a keyword alone, an
\* empty line, a longer identifier, another keyword.
NearMissesSource ==
    << <<"password", " ", "=", "=", "\"abc123\"">>,
       <<"password", "=", "\"\"">>,
       <<"token", ";">>,
       <<>>,
       <<"passwords", "=", "'t'">>,
       <<"secret", "=", "'t'">> >>

ScriptOnlySource ==
    << <<"s", ".", "setJavaScriptEnabled(true)", ";">> >>

SafeBrowserSource ==
    << <<"WebView", " ", "w", ";">>,
       <<"w", ".", "setJavaScriptEnabled(true)", ";">>,
       <<"w", ".", "setAllowFileAccess(false)", ";">> >>

FieldBrowserSource ==
    << <<"mWebView", ".", "setJavaScriptEnabled(true)", ";">> >>

WebViewOnlySource ==
    << <<"WebView", " ", "w", ";">> >>

NetworkSource ==
    << <<"connect", "(", "INTERNET", ")", ";">> >>

\* What a file of the tree is: missing, impossible to open, or one of the
\* sources above.
FileKinds == {"absent", "unreadable", "Login", "Browser"}

\* The kinds of the file the scanner specification varies.
ScanKinds ==
    {"unreadable", "Login", "Browser", "PasswordOnly", "Secrets", "NearMisses",
     "ScriptOnly", "SafeBrowser", "FieldBrowser", "WebViewOnly", "Network"}

FileContent(kind) ==
    CASE kind = "Login" -> LoginSource
      [] kind = "Browser" -> BrowserSource
      [] kind = "PasswordOnly" -> PasswordOnlySource
      [] kind = "Secrets" -> SecretsSource
      [] kind = "NearMisses" -> NearMissesSource
      [] kind = "ScriptOnly" -> ScriptOnlySource
      [] kind = "SafeBrowser" -> SafeBrowserSource
      [] kind = "FieldBrowser" -> FieldBrowserSource
      [] kind = "WebViewOnly" -> WebViewOnlySource
      [] kind = "Network" -> NetworkSource
      [] OTHER -> <<>>

KnownPermissions == <<"android.permission.CAMERA", "android.permission.INTERNET">>

\* Duplicate-free permission lists of at most n entries.
RECURSIVE PermissionLists(_)
PermissionLists(n) ==
    IF n = 0 THEN {<<>>}
    ELSE LET shorter == PermissionLists(n - 1)
         IN shorter \cup
            { Append(l, KnownPermissions[k]) :
                <<l, k>> \in { lk \in shorter \X DOMAIN KnownPermissions :
                                 \A j \in DOMAIN lk[1] : lk[1][j] # KnownPermissions[lk[2]] } }

ExportedActivity == [kind |-> "activity", name |-> ".Main", exported |-> TRUE,
                     has_intent_filter |-> TRUE, permission |-> None]

Manifests ==
    { [exists |-> FALSE, wellFormed |-> FALSE, permissions |-> <<>>, components |-> <<>>],
      [exists |-> TRUE, wellFormed |-> FALSE, permissions |-> <<>>, components |-> <<>>] }
    \cup
    { [exists |-> TRUE, wellFormed |-> TRUE, permissions |-> p, components |-> c] :
        <<p, c>> \in PermissionLists(MaxPerms) \X {<<>>, <<ExportedActivity>>} }

JavaTrees ==
    { [exists |-> FALSE, files |-> [id \in FileIds |-> "absent"]] }
    \cup { [exists |-> TRUE, files |-> f] : f \in [FileIds -> FileKinds] }

\* The smali subtree, when there is one, holds one file with one finding.
SmaliTrees == { [exists |-> FALSE], [exists |-> TRUE] }

Projects ==
    { [manifest |-> m, java |-> j, smali |-> s] :
        <<m, j, s>> \in Manifests \X JavaTrees \X SmaliTrees }

\* The trees of the scanner specification: the first file of any kind, the
\* others missing or Login sources.
ScanTrees ==
    { [exists |-> TRUE, files |-> f] :
        f \in { g \in [FileIds -> ScanKinds \cup {"absent"}] :
                  /\ g[1] # "absent"
                  /\ \A id \in FileIds \ {1} : g[id] \in {"absent", "Login"} } }

ScanProjects ==
    { [manifest |-> [exists |-> TRUE, wellFormed |-> TRUE, permissions |-> p,
                     components |-> <<>>],
       java |-> j, smali |-> [exists |-> FALSE]] :
        <<p, j>> \in PermissionLists(MaxPerms) \X ScanTrees }

\* Not in the sources: config/patterns.json, an ordered list of rules.  The
\* catalog shipped, and another one.
ShippedCatalog == <<"password", "api_key", "token", "http", "cleartext">>

Catalogs == {ShippedCatalog, <<"secret", "http">>}

\* load_patterns(): self.patterns = json.load(f)
load_patterns(catalog) == catalog

\* The files rglob('*.java') yields, and the orders it may yield them in
\* (the order of the file system's directory listing).
Listed(java) == { id \in FileIds : java.files[id] # "absent" }

EnumerationOrders(java) ==
    { o \in [1..Cardinality(Listed(java)) -> Listed(java)] :
        \A i, j \in DOMAIN o : i # j => o[i] # o[j] }

(***************************************************************************)
(* Source scanner: analyze_java_code and what it calls.                    *)
(***************************************************************************)
\* Tokens whose text ends, whatever the case, with the keyword of a rule.
EndsWithPassword == {"password", "PASSWORD", "userPassword"}
EndsWithApiKey == {"api_key", "apikey", "API-KEY"}
EndsWithToken == {"token", "authToken"}

\* Tokens that match ["'][^"']+["']: a quoted, non-empty literal.
QuotedLiterals == {"\"abc123\"", "\"http://x\"", "'t'"}

\* Tokens whose text contains the given substring.
TokensWith(sub) ==
    CASE sub = "http://" -> {"\"http://x\""}
      [] sub = "android:usesCleartextTraffic=\"true\"" -> {"android:usesCleartextTraffic=\"true\""}
      [] sub = "WebView" -> {"WebView", "mWebView"}
      [] sub = "setJavaScriptEnabled(true)" -> {"setJavaScriptEnabled(true)"}
      [] sub = "setAllowFileAccess(false)" -> {"setAllowFileAccess(false)"}
      [] sub = "openOrCreateDatabase" -> {"openOrCreateDatabase"}
      [] sub = "MODE_WORLD_READABLE" -> {"MODE_WORLD_READABLE"}
      [] OTHER -> {sub}

\* sub in line
LineHas(line, sub) == \E i \in DOMAIN line : line[i] \in TokensWith(sub)

\* sub in content
ContentHas(content, sub) == \E n \in DOMAIN content : LineHas(content[n], sub)

\* The first position from i on that holds no whitespace (\s*).
RECURSIVE SkipSpace(_, _)
SkipSpace(line, i) ==
    IF i <= Len(line) /\ line[i] \in Whitespace THEN SkipSpace(line, i + 1) ELSE i

\* re.search of  keyword\s*=\s*["'][^"']+["']
KeywordAssigned(line, keywords) ==
    \E i \in DOMAIN line :
        /\ line[i] \in keywords
        /\ LET j == SkipSpace(line, i + 1)
           IN /\ j <= Len(line)
              /\ line[j] = "="
              /\ LET k == SkipSpace(line, j + 1)
                 IN k <= Len(line) /\ line[k] \in QuotedLiterals

\* The list sensitive_patterns, in its order: (pattern, issue).
sensitive_patterns == <<"password", "api_key", "token", "http", "cleartext">>

\* re.search(pattern, line)
PatternMatches(pattern, line) ==
    CASE pattern = "password" -> KeywordAssigned(line, EndsWithPassword)
      [] pattern = "api_key" -> KeywordAssigned(line, EndsWithApiKey)
      [] pattern = "token" -> KeywordAssigned(line, EndsWithToken)
      [] pattern = "http" -> LineHas(line, "http://")
      [] pattern = "cleartext" -> LineHas(line, "android:usesCleartextTraffic=\"true\"")

\* line.strip()
RECURSIVE Strip(_)
Strip(line) ==
    IF line = <<>> THEN line
    ELSE IF Head(line) \in Whitespace THEN Strip(Tail(line))
    ELSE IF line[Len(line)] \in Whitespace THEN Strip(SubSeq(line, 1, Len(line) - 1))
    ELSE line

SensitiveFinding(id, line_num, issue, line) ==
    [file |-> RelativePath(id), line |-> line_num, type |-> "SENSITIVE_DATA",
     severity |-> "HIGH", description |-> "sensitive data: " \o issue,
     code_snippet |-> Strip(line)]

RECURSIVE LinePatternsFirstMatch(_, _, _, _, _)
\* LinePatterns gone wrong: a break after the first pattern that matches.
LinePatternsFirstMatch(id, content, line_num, p, found) ==
    IF p > Len(sensitive_patterns) THEN found
    ELSE IF PatternMatches(sensitive_patterns[p], content[line_num])
    THEN Append(found, SensitiveFinding(id, line_num, sensitive_patterns[p],
                                        content[line_num]))
    ELSE LinePatternsFirstMatch(id, content, line_num, p + 1, found)

\* for pattern, issue in sensitive_patterns: if re.search(pattern, line): append
RECURSIVE LinePatterns(_, _, _, _, _)
LinePatterns(id, content, line_num, p, found) ==
    IF p > Len(sensitive_patterns) THEN found
    ELSE LinePatterns(id, content, line_num, p + 1,
            IF PatternMatches(sensitive_patterns[p], content[line_num])
            THEN Append(found, SensitiveFinding(id, line_num, sensitive_patterns[p],
                                                content[line_num]))
            ELSE found)

\* for line in content.split('\n'): line_num += 1 ...
RECURSIVE ScanLines(_, _, _, _)
ScanLines(id, content, line_num, found) ==
    IF line_num > Len(content) THEN found
    ELSE ScanLines(id, content, line_num + 1,
                   LinePatterns(id, content, line_num, 1, found))

\* analyze_webview_security gone wrong: setAllowFileAccess(false) is not
\* looked for.
WebviewIgnoringFileAccess(content, id) ==
    IF ContentHas(content, "setJavaScriptEnabled(true)")
    THEN << [file |-> FullPath(id), type |-> "WEBVIEW_INSECURE", severity |-> "HIGH",
             description |-> "WebView with JavaScript enabled and no sufficient restriction",
             recommendation |-> "disable JavaScript or apply strict policies"] >>
    ELSE <<>>

analyze_webview_security(content, id) ==
    IF /\ ContentHas(content, "setJavaScriptEnabled(true)")
       /\ ~ContentHas(content, "setAllowFileAccess(false)")
    THEN << [file |-> FullPath(id), type |-> "WEBVIEW_INSECURE", severity |-> "HIGH",
             description |-> "WebView with JavaScript enabled and no sufficient restriction",
             recommendation |-> "disable JavaScript or apply strict policies"] >>
    ELSE <<>>

\* Not in the sources: a data store built with a world-readable mode is HIGH.
analyze_database_security(content, id) ==
    IF /\ ContentHas(content, "openOrCreateDatabase")
       /\ ContentHas(content, "MODE_WORLD_READABLE")
    THEN << [file |-> FullPath(id), type |-> "DATABASE_INSECURE", severity |-> "HIGH",
             description |-> "data store opened world-readable"] >>
    ELSE <<>>

\* The body of the try for one file: the exception it ends with, if any, and
\* the findings it appended to vulnerabilities before that.
TryFile(java, id) ==
    IF java.files[id] = "unreadable"
    THEN [raised |-> "PermissionError", found |-> <<>>]      \* open() raises
    ELSE LET content == FileContent(java.files[id])
         IN [raised |-> "none",
             found |-> ScanLines(id, content, 1, <<>>)
                       \o (IF ContentHas(content, "WebView")
                           THEN analyze_webview_security(content, id) ELSE <<>>)
                       \o analyze_database_security(content, id)]

RECURSIVE ScanFiles(_, _, _, _)

\* ExceptContinue gone wrong: the scan stops at the file that failed.
ExceptBreak(java, order, i, found) == Return(found)

\* except: continue
ExceptContinue(java, order, i, found) == ScanFiles(java, order, i + 1, found)

\* for file_path in java_dir.rglob('*.java'): try: ... except: continue
ScanFiles(java, order, i, found) ==
    IF i > Len(order) THEN Return(found)
    ELSE LET r == TryFile(java, order[i])
         IN IF r.raised # "none"
            THEN ExceptContinue(java, order, i, found \o r.found)
            ELSE ScanFiles(java, order, i + 1, found \o r.found)

\* analyze_java_code(java_dir), rglob listing the files in the given order
analyze_java_code(java, order) == ScanFiles(java, order, 1, <<>>)

\* Not in the sources: the smali scan; the one smali file of the model holds
\* one line that a rule matches.
analyze_smali_code(smali) ==
    << [file |-> "Main.smali", line |-> 1, type |-> "SENSITIVE_DATA", severity |-> "HIGH",
        description |-> "sensitive data: http", code_snippet |-> <<"const-string", "\"http://x\"">>] >>

\* Not in the sources: the number of source files under a directory.
count_files(exists, n) == IF exists THEN n ELSE 0

\* analyze_code(project_dir)
analyze_code(proj, order) ==
    LET java == IF proj.java.exists THEN analyze_java_code(proj.java, order) ELSE Return(<<>>)
    IN IF ~Returned(java) THEN java
       ELSE Return([vulnerabilities |->
                        java.value \o (IF proj.smali.exists
                                       THEN analyze_smali_code(proj.smali) ELSE <<>>),
                    files_analyzed |->
                        count_files(proj.java.exists, Cardinality(Listed(proj.java)))
                        + count_files(proj.smali.exists, 1)])

(***************************************************************************)
(* Manifest analyzer: analyze_manifest.                                    *)
(***************************************************************************)
\* Not in the sources: the permissions the manifest declares.
extract_permissions(manifest) == manifest.permissions

\* Not in the sources: the components the manifest declares.
analyze_components(manifest) == manifest.components

\* Not in the sources: exported, unguarded components; HIGH with an intent
\* filter, MEDIUM without.
RECURSIVE check_component_vulnerabilities(_)
check_component_vulnerabilities(components) ==
    IF components = <<>> THEN <<>>
    ELSE LET c == Head(components)
         IN (IF c.exported /\ c.permission = None
             THEN << [type |-> "EXPORTED_COMPONENT",
                      severity |-> IF c.has_intent_filter THEN "HIGH" ELSE "MEDIUM",
                      description |-> "exported component: " \o c.name] >>
             ELSE <<>>)
            \o check_component_vulnerabilities(Tail(components))

\* Not in the sources: the manifests of the model hold no broad intent filter
\* and no insecure flag.
analyze_intent_filters(manifest) == <<>>

check_security_config(manifest) == <<>>

\* The try block of analyze_manifest: the exception that ends it, the local
\* names it has bound by then, and their values.
ManifestTry(manifest) ==
    IF ~manifest.wellFormed
    THEN [raised |-> "ParseError", bound |-> {},                 \* ET.parse raises
          permissions |-> <<>>, components |-> <<>>, vulnerabilities |-> <<>>]
    ELSE [raised |-> "none", bound |-> {"permissions", "components"},
          permissions |-> extract_permissions(manifest),
          components |-> analyze_components(manifest),
          vulnerabilities |->
              check_component_vulnerabilities(analyze_components(manifest))
              \o analyze_intent_filters(manifest)
              \o check_security_config(manifest)]

analyze_manifest(proj) ==
    IF ~proj.manifest.exists THEN Return([error |-> "Manifest not found"])
    ELSE LET t == ManifestTry(proj.manifest)
             issues == IF t.raised # "none"
                       THEN <<"Error parsing manifest: " \o t.raised>> ELSE <<>>
         IN \* the return statement reads permissions and components
            IF {"permissions", "components"} \subseteq t.bound
            THEN Return([permissions |-> t.permissions, components |-> t.components,
                         vulnerabilities |-> t.vulnerabilities, issues |-> issues])
            ELSE Raise("UnboundLocalError")

(***************************************************************************)
(* Permission analyzer: analyze_permissions.                               *)
(***************************************************************************)
dangerous_perms ==
    {"android.permission.READ_SMS", "android.permission.SEND_SMS",
     "android.permission.RECORD_AUDIO", "android.permission.ACCESS_FINE_LOCATION",
     "android.permission.CAMERA", "android.permission.READ_CONTACTS",
     "android.permission.WRITE_CONTACTS"}

\* The last segment of a permission identifier.
TerminalSegment(perm) ==
    CASE perm = "android.permission.CAMERA" -> "CAMERA"
      [] perm = "android.permission.INTERNET" -> "INTERNET"

\* Not in the sources: the permissions whose last segment occurs in the text
\* of some source file.
detect_used_permissions(java) ==
    { KnownPermissions[k] : k \in
        { k \in DOMAIN KnownPermissions :
            \E id \in Listed(java) :
                /\ java.files[id] # "unreadable"
                /\ ContentHas(FileContent(java.files[id]),
                              TerminalSegment(KnownPermissions[k])) } }

DangerousFinding(perm) ==
    [type |-> "DANGEROUS_PERMISSION", severity |-> "MEDIUM",
     description |-> "dangerous permission: " \o perm,
     recommendation |-> "check that the permission is needed"]

UnusedFinding(perm) ==
    [type |-> "UNUSED_PERMISSION", severity |-> "LOW",
     description |-> "unused permission: " \o perm,
     recommendation |-> "remove the permission"]

\* for perm in permissions: if perm in dangerous_perms: append
RECURSIVE DangerousLoop(_, _, _)
DangerousLoop(permissions, i, found) ==
    IF i > Len(permissions) THEN found
    ELSE DangerousLoop(permissions, i + 1,
            IF permissions[i] \in dangerous_perms
            THEN Append(found, DangerousFinding(permissions[i])) ELSE found)

RECURSIVE UnusedLoopSkippingDangerous(_, _, _, _)
\* UnusedLoop gone wrong: a permission already reported as dangerous is not
\* looked up among the used ones.
UnusedLoopSkippingDangerous(permissions, used_perms, i, found) ==
    IF i > Len(permissions) THEN found
    ELSE UnusedLoopSkippingDangerous(permissions, used_perms, i + 1,
            IF permissions[i] \notin used_perms /\ permissions[i] \notin dangerous_perms
            THEN Append(found, UnusedFinding(permissions[i])) ELSE found)

\* for perm in permissions: if perm not in used_perms: append
RECURSIVE UnusedLoop(_, _, _, _)
UnusedLoop(permissions, used_perms, i, found) ==
    IF i > Len(permissions) THEN found
    ELSE UnusedLoop(permissions, used_perms, i + 1,
            IF permissions[i] \notin used_perms
            THEN Append(found, UnusedFinding(permissions[i])) ELSE found)

\* The try block of analyze_permissions.
PermissionsTry(proj) ==
    IF ~proj.manifest.wellFormed
    THEN [raised |-> "ParseError", bound |-> {},                 \* ET.parse raises
          permissions |-> <<>>, vulnerabilities |-> <<>>]
    ELSE LET permissions == extract_permissions(proj.manifest)
         IN [raised |-> "none", bound |-> {"permissions"},
             permissions |-> permissions,
             vulnerabilities |->
                 UnusedLoop(permissions, detect_used_permissions(proj.java), 1,
                            DangerousLoop(permissions, 1, <<>>))]

analyze_permissions(proj) ==
    IF ~proj.manifest.exists THEN Return([vulnerabilities |-> <<>>])
    ELSE LET t == PermissionsTry(proj)
             vulns == IF t.raised # "none"
                      THEN Append(t.vulnerabilities,
                                  [type |-> "ANALYSIS_ERROR", severity |-> "INFO",
                                   description |-> "permission analysis error: " \o t.raised])
                      ELSE t.vulnerabilities
         IN \* the return statement reads permissions
            IF "permissions" \in t.bound
            THEN Return([permissions |-> t.permissions, vulnerabilities |-> vulns])
            ELSE Raise("UnboundLocalError")

\* Not in the sources.
analyze_resources(proj) == Return([vulnerabilities |-> <<>>])

(***************************************************************************)
(* Orchestrator: full_analysis.                                            *)
(***************************************************************************)
NotRun == [raised |-> "not run"]

Raised(out) == out.raised \notin {"none", "not run"}

\* Combine gone wrong: the last extend forgotten.
CombineWithoutPermissions(manifest_vulns, code_vulns, permission_vulns) ==
    manifest_vulns \o code_vulns

\* all_vulns = []; all_vulns.extend(...) three times
Combine(manifest_vulns, code_vulns, permission_vulns) ==
    manifest_vulns \o code_vulns \o permission_vulns

\* PhaseRaised gone wrong: the exception caught and the phase left out.
PhaseSwallowed(exc, phases, issues) ==
    [raised |-> "none", phases |-> phases,
     value |-> [vulnerabilities |-> <<>>, security_issues |-> issues, risk_score |-> 0]]

\* An exception of a sub-analyzer is not caught by full_analysis: it leaves
\* full_analysis as the exception it is.
PhaseRaised(exc, phases, issues) == [raised |-> exc, phases |-> phases]

\* full_analysis(project_dir) on an instance whose security_issues is issues;
\* the result and, for the record, the outcome of each sub-analyzer call.
full_analysis(proj, order, issues) ==
    LET m == analyze_manifest(proj)
        c == IF Returned(m) THEN analyze_code(proj, order) ELSE NotRun
        p == IF Returned(c) THEN analyze_permissions(proj) ELSE NotRun
        r == IF Returned(p) THEN analyze_resources(proj) ELSE NotRun
        phases == [manifest_analysis |-> m, code_analysis |-> c,
                   permission_analysis |-> p, resource_analysis |-> r]
    IN IF Raised(m) THEN PhaseRaised(m.raised, phases, issues)
       ELSE IF Raised(c) THEN PhaseRaised(c.raised, phases, issues)
       ELSE IF Raised(p) THEN PhaseRaised(p.raised, phases, issues)
       ELSE IF Raised(r) THEN PhaseRaised(r.raised, phases, issues)
       \* results['manifest_analysis']['vulnerabilities'] and the two after it
       ELSE IF \E x \in {m, c, p} : "vulnerabilities" \notin DOMAIN x.value
       THEN [raised |-> "KeyError", phases |-> phases]
       ELSE LET all_vulns == Combine(m.value.vulnerabilities, c.value.vulnerabilities,
                                     p.value.vulnerabilities)
            IN [raised |-> "none", phases |-> phases,
                value |-> [manifest_analysis |-> m.value,
                           code_analysis |-> c.value,
                           permission_analysis |-> p.value,
                           resource_analysis |-> r.value,
                           vulnerabilities |-> all_vulns,
                           security_issues |-> issues,
                           risk_score |-> calculate_risk_score(all_vulns)]]

(***************************************************************************)
(* The analyzer called on one project tree.                                *)
(***************************************************************************)
NoCall == [op |-> "none"]

NoRun == [raised |-> "no call"]

EmptyProject ==
    [manifest |-> [exists |-> FALSE, wellFormed |-> FALSE, permissions |-> <<>>,
                   components |-> <<>>],
     java |-> [exists |-> FALSE, files |-> [id \in FileIds |-> "absent"]],
     smali |-> [exists |-> FALSE]]

\* SecurityAnalyzer(): vulnerabilities = [], security_issues = []
Constructed ==
    /\ vulnerabilities = <<>>
    /\ security_issues = <<>>
    /\ lastCall = NoCall
    /\ prevRun = NoRun

Init ==
    /\ project \in Projects
    /\ patterns = load_patterns(ShippedCatalog)
    /\ Constructed
    /\ ScoreIdle

AnalyzeManifest ==
    /\ lastCall' = [op |-> "analyze_manifest", out |-> analyze_manifest(project)]
    /\ prevRun' = NoRun
    /\ UNCHANGED <<project, vulnerabilities, security_issues, patterns>>
    /\ UNCHANGED scoreVars

AnalyzeJavaCode ==
    /\ \E order \in EnumerationOrders(project.java) :
         lastCall' = [op |-> "analyze_java_code", order |-> order,
                      out |-> analyze_java_code(project.java, order)]
    /\ prevRun' = NoRun
    /\ UNCHANGED <<project, vulnerabilities, security_issues, patterns>>
    /\ UNCHANGED scoreVars

AnalyzeCode ==
    /\ \E order \in EnumerationOrders(project.java) :
         lastCall' = [op |-> "analyze_code", order |-> order,
                      out |-> analyze_code(project, order)]
    /\ prevRun' = NoRun
    /\ UNCHANGED <<project, vulnerabilities, security_issues, patterns>>
    /\ UNCHANGED scoreVars

AnalyzePermissions ==
    /\ lastCall' = [op |-> "analyze_permissions", out |-> analyze_permissions(project)]
    /\ prevRun' = NoRun
    /\ UNCHANGED <<project, vulnerabilities, security_issues, patterns>>
    /\ UNCHANGED scoreVars

\* The outcome of the last call, when it was a full_analysis call.
lastRun == IF lastCall.op = "full_analysis" THEN lastCall.out ELSE NoRun

\* get_summary(), of an instance whose vulnerabilities is vulns
get_summary(vulns) ==
    [total_vulnerabilities |-> Len(vulns),
     high_severity |-> Cardinality({k \in DOMAIN vulns : vulns[k].severity = "HIGH"}),
     medium_severity |-> Cardinality({k \in DOMAIN vulns : vulns[k].severity = "MEDIUM"}),
     low_severity |-> Cardinality({k \in DOMAIN vulns : vulns[k].severity = "LOW"})]

\* The last full_analysis outcome, across the get_summary calls after it.
lastFullRun == IF lastCall.op = "get_summary" THEN lastCall.after ELSE lastRun

\* APKForensicToolkit.full_analysis reads the summary after the analysis.
GetSummary ==
    /\ lastCall' = [op |-> "get_summary", after |-> lastFullRun,
                    out |-> Return(get_summary(vulnerabilities))]
    /\ prevRun' = NoRun
    /\ UNCHANGED <<project, vulnerabilities, security_issues, patterns>>
    /\ UNCHANGED scoreVars

\* FullAnalysis gone wrong: the combined findings are kept in the instance.
FullAnalysisStoring ==
    /\ \E order \in EnumerationOrders(project.java) :
         LET out == full_analysis(project, order, security_issues)
         IN /\ lastCall' = [op |-> "full_analysis", out |-> out]
            /\ vulnerabilities' = IF Returned(out) THEN out.value.vulnerabilities
                                  ELSE vulnerabilities
    /\ prevRun' = lastRun
    /\ UNCHANGED <<project, security_issues, patterns>>
    /\ UNCHANGED scoreVars

FullAnalysis ==
    /\ \E order \in EnumerationOrders(project.java) :
         lastCall' = [op |-> "full_analysis",
                      out |-> full_analysis(project, order, security_issues)]
    /\ prevRun' = lastRun
    /\ UNCHANGED <<project, vulnerabilities, security_issues, patterns>>
    /\ UNCHANGED scoreVars

Next ==
    \/ AnalyzeManifest
    \/ AnalyzeJavaCode
    \/ AnalyzeCode
    \/ AnalyzePermissions
    \/ FullAnalysis
    \/ GetSummary

Spec == Init /\ [][Next]_vars

(***************************************************************************)
(* calculate_risk_score called on a list of findings.                      *)
(***************************************************************************)
InitScore ==
    /\ project = EmptyProject
    /\ patterns = load_patterns(ShippedCatalog)
    /\ Constructed
    /\ sc_vulns \in ScoreInputs
    /\ sc_pc = "loop" /\ sc_i = 0 /\ sc_score = 0 /\ sc_ret = 0
    /\ sc_prev = 0 /\ sc_added = 0

NextScore ==
    \/ ScoreIterate
    \/ ScoreFinish
    \/ ScoreAppended

SpecScore == InitScore /\ [][NextScore]_vars

(***************************************************************************)
(* The analyzer called on a project whose first source file and whose      *)
(* pattern catalog vary.                                                   *)
(***************************************************************************)
InitScan ==
    /\ project \in ScanProjects
    /\ patterns \in { load_patterns(c) : c \in Catalogs }
    /\ Constructed
    /\ ScoreIdle

SpecScan == InitScan /\ [][Next]_vars

(***************************************************************************)
(* Properties.                                                             *)
(***************************************************************************)
CountOf(vulns, sev) == Cardinality({ i \in DOMAIN vulns : vulns[i].severity = sev })

WeightedSum(vulns) ==
    10 * CountOf(vulns, "CRITICAL") + 7 * CountOf(vulns, "HIGH")
    + 4 * CountOf(vulns, "MEDIUM") + 2 * CountOf(vulns, "LOW") + CountOf(vulns, "INFO")

\* C1: whenever calculate_risk_score has returned, the value returned is
\* min(100, 10*#CRITICAL + 7*#HIGH + 4*#MEDIUM + 2*#LOW + #INFO) of its
\* argument, hence an integer of 0..100, and it is 100 for 1000 CRITICAL
\* findings.
C1_ScoreIsClampedWeightedSum ==
    sc_pc = "done" =>
        /\ sc_ret = Min(100, WeightedSum(sc_vulns))
        /\ sc_ret \in 0..100
        /\ (sc_vulns = Repeat(Synth("CRITICAL"), SyntheticSize) => sc_ret = 100)

C1_Witness ==
    /\ sc_pc = "done"
    /\ Len(sc_vulns) = SyntheticSize
    /\ sc_added = 0
    /\ sc_ret = 100

\* C2: the score of a list with one more finding appended is never below
\* the score of the list before the append.
C2_ScoreMonotone ==
    (sc_pc = "done" /\ sc_added > 0) => sc_ret >= sc_prev

C2_Witness ==
    /\ sc_pc = "done"
    /\ sc_added > 0
    /\ sc_prev < sc_ret
    /\ sc_ret < 100

EmptyTree(proj) == ~proj.manifest.exists /\ ~proj.java.exists /\ ~proj.smali.exists

MalformedManifest(proj) == proj.manifest.exists /\ ~proj.manifest.wellFormed

\* C3: full_analysis on a project with no manifest, no java and no smali
\* directory returns a result with empty finding lists and risk score 0.
C3_EmptyProjectScoresZero ==
    (EmptyTree(project) /\ lastRun # NoRun) =>
        /\ Returned(lastRun)
        /\ lastRun.value.vulnerabilities = <<>>
        /\ lastRun.value.risk_score = 0

\* C4: on a manifest that exists and is not well-formed, analyze_manifest
\* returns with the parse failure among its issues and no finding of the
\* skipped checks, and full_analysis is not aborted.
C4_MalformedManifestRecovered ==
    MalformedManifest(project) =>
        /\ lastCall.op = "analyze_manifest" =>
              /\ Returned(lastCall.out)
              /\ lastCall.out.value.issues # <<>>
              /\ lastCall.out.value.vulnerabilities = <<>>
        /\ lastRun # NoRun => Returned(lastRun)

\* C5: on a manifest that cannot be parsed, analyze_permissions returns a
\* result whose vulnerabilities hold an INFO finding for the failure.
C5_PermissionFailureRecorded ==
    (MalformedManifest(project) /\ lastCall.op = "analyze_permissions") =>
        /\ Returned(lastCall.out)
        /\ \E i \in DOMAIN lastCall.out.value.vulnerabilities :
              lastCall.out.value.vulnerabilities[i].severity = "INFO"

Failing(java) == { id \in Listed(java) : java.files[id] = "unreadable" }

\* The tree with its failing files taken away.
WithoutFailing(java) ==
    [java EXCEPT !.files = [id \in FileIds |->
                               IF id \in Failing(java) THEN "absent" ELSE java.files[id]]]

\* C6: when files of the tree fail to open, analyze_java_code returns, and
\* returns what it returns on the tree without them, the other files being
\* listed in the same order.
C6_FailingFileSkipped ==
    (lastCall.op = "analyze_java_code" /\ Failing(project.java) # {}) =>
        /\ Returned(lastCall.out)
        /\ lastCall.out =
              analyze_java_code(WithoutFailing(project.java),
                                SelectSeq(lastCall.order,
                                          LAMBDA id : id \notin Failing(project.java)))

C6_Witness ==
    /\ lastCall.op = "analyze_java_code"
    /\ \E i, j \in DOMAIN lastCall.order :
          /\ i < j
          /\ project.java.files[lastCall.order[i]] = "unreadable"
          /\ project.java.files[lastCall.order[j]] = "Login"
    /\ Returned(lastCall.out)
    /\ Len(lastCall.out.value) >= 3

Phases == {"manifest_analysis", "code_analysis", "permission_analysis"}

C8_CombinedIsConcatenation ==
    Returned(lastRun) =>
        LET m == lastRun.value.manifest_analysis.vulnerabilities
            c == lastRun.value.code_analysis.vulnerabilities
            p == lastRun.value.permission_analysis.vulnerabilities
            all == lastRun.value.vulnerabilities
        IN /\ Len(all) = Len(m) + Len(c) + Len(p)
           /\ \A i \in DOMAIN m : all[i] = m[i]
           /\ \A i \in DOMAIN c : all[Len(m) + i] = c[i]
           /\ \A i \in DOMAIN p : all[Len(m) + Len(c) + i] = p[i]

C8_Witness ==
    /\ Returned(lastRun)
    /\ lastRun.value.manifest_analysis.vulnerabilities # <<>>
    /\ lastRun.value.code_analysis.vulnerabilities # <<>>
    /\ lastRun.value.permission_analysis.vulnerabilities # <<>>

\* Every path a finding can carry, in lexicographic order.
SortedPaths ==
    <<"A.java", "Main.smali", "net/B.java",
      "project/java/A.java", "project/java/net/B.java",
      "project/java/ui/C.java", "project/java/ui/D.java",
      "ui/C.java", "ui/D.java">>

PathRank(path) == CHOOSE i \in DOMAIN SortedPaths : SortedPaths[i] = path

Located(f) == {"file", "line"} \subseteq DOMAIN f

\* No located finding stands before a located finding of a smaller path, or
\* of the same path and a smaller line.
SortedByFileThenLine(vulns) ==
    \A i, j \in DOMAIN vulns :
        (i < j /\ Located(vulns[i]) /\ Located(vulns[j])) =>
            \/ PathRank(vulns[i].file) < PathRank(vulns[j].file)
            \/ /\ vulns[i].file = vulns[j].file
               /\ vulns[i].line <= vulns[j].line

\* C9: the findings analyze_java_code returns and the combined list
\* full_analysis returns are sorted by file path, then line number.
C9_FindingsSorted ==
    /\ lastCall.op = "analyze_java_code" =>
          SortedByFileThenLine(lastCall.out.value)
    /\ Returned(lastRun) => SortedByFileThenLine(lastRun.value.vulnerabilities)

\* C10: two full_analysis runs on the same instance and the same tree return
\* the same combined list and the same risk score.
C10_RunsIdentical ==
    (Returned(prevRun) /\ Returned(lastRun)) =>
        /\ prevRun.value.vulnerabilities = lastRun.value.vulnerabilities
        /\ prevRun.value.risk_score = lastRun.value.risk_score

\* The files of a tree the scan reads.
Scanned(java) == { id \in Listed(java) : java.files[id] # "unreadable" }

\* The positions of the findings of a list that a rule reported for a line
\* of a file.
ReportedAt(vulns, path, line_num, rule) ==
    { k \in DOMAIN vulns :
        /\ vulns[k].type = "SENSITIVE_DATA"
        /\ vulns[k].file = path
        /\ vulns[k].line = line_num
        /\ vulns[k].description = "sensitive data: " \o rule }

\* The positions of the findings of a list reported for a line of a file.
ReportedOnLine(vulns, path, line_num) ==
    { k \in DOMAIN vulns :
        /\ vulns[k].type = "SENSITIVE_DATA"
        /\ vulns[k].file = path
        /\ vulns[k].line = line_num }

\* text is line without the whitespace at its two ends.
IsTrimmed(text, line) ==
    /\ \E a \in 1..(Len(line) + 1), b \in 0..Len(line) :
          /\ text = SubSeq(line, a, b)
          /\ \A i \in 1..(a - 1) : line[i] \in Whitespace
          /\ \A i \in (b + 1)..Len(line) : line[i] \in Whitespace
    /\ text # <<>> => (Head(text) \notin Whitespace /\ text[Len(text)] \notin Whitespace)

Rules == { sensitive_patterns[p] : p \in DOMAIN sensitive_patterns }

\* C11: in what analyze_java_code returns, each line of each file read has
\* one finding for each rule that matches it and none for the other rules
\* (so three for a line three rules match); these findings are HIGH,
\* SENSITIVE_DATA, carry the relative path, the line number counted from 1
\* and the trimmed line; no other SENSITIVE_DATA finding is returned; the
\* file of the one line  String password = "abc123";  has one finding.
C11_OneFindingPerLineAndRule ==
    (lastCall.op = "analyze_java_code" /\ Returned(lastCall.out)) =>
        LET found == lastCall.out.value
            java == project.java
        IN /\ \A id \in Scanned(java) :
                LET content == FileContent(java.files[id])
                IN \A i \in DOMAIN content : \A r \in Rules :
                      /\ Cardinality(ReportedAt(found, RelativePath(id), i, r))
                            = IF PatternMatches(r, content[i]) THEN 1 ELSE 0
                      /\ \A k \in ReportedAt(found, RelativePath(id), i, r) :
                            /\ found[k].severity = "HIGH"
                            /\ IsTrimmed(found[k].code_snippet, content[i])
           /\ \A k \in DOMAIN found :
                found[k].type = "SENSITIVE_DATA" =>
                    \E id \in Scanned(java) :
                        /\ found[k].file = RelativePath(id)
                        /\ found[k].line \in DOMAIN FileContent(java.files[id])
                        /\ \E r \in Rules : k \in ReportedAt(found, found[k].file,
                                                             found[k].line, r)
           /\ \A id \in Scanned(java) :
                /\ java.files[id] = "PasswordOnly" =>
                      /\ Cardinality(ReportedOnLine(found, RelativePath(id), 1)) = 1
                      /\ \A k \in ReportedOnLine(found, RelativePath(id), 1) :
                            found[k].code_snippet = PasswordOnlySource[1]
                /\ java.files[id] = "Secrets" =>
                      \A i \in 1..4 :
                          Cardinality(ReportedOnLine(found, RelativePath(id), i))
                              = <<1, 2, 3, 1>>[i]
                /\ java.files[id] = "NearMisses" =>
                      \A i \in 1..6 : ReportedOnLine(found, RelativePath(id), i) = {}

C11_Witness ==
    /\ lastCall.op = "analyze_java_code"
    /\ Returned(lastCall.out)
    /\ project.java.files[1] = "Secrets"
    /\ Cardinality(ReportedOnLine(lastCall.out.value, RelativePath(1), 3)) = 3

\* The positions of the findings of a list of the given type and severity
\* whose description names the permission.
PermissionFindings(vulns, type, severity, label, perm) ==
    { k \in DOMAIN vulns :
        /\ vulns[k].type = type
        /\ vulns[k].severity = severity
        /\ vulns[k].description = label \o perm }

\* The permission is detected as referenced in the source tree.
Referenced(proj, perm) == perm \in detect_used_permissions(proj.java)

\* C12: in what analyze_permissions returns, each declared permission has
\* one MEDIUM DANGEROUS_PERMISSION finding if it is on the dangerous list
\* (CAMERA is, INTERNET is not) and none otherwise, and one LOW
\* UNUSED_PERMISSION finding if it is not detected as referenced in the
\* sources and none otherwise, the one whatever the other; nothing else is returned.
C12_DangerousAndUnusedIndependent ==
    (lastCall.op = "analyze_permissions" /\ Returned(lastCall.out)
        /\ project.manifest.exists) =>
        LET found == lastCall.out.value.vulnerabilities
            declared == project.manifest.permissions
            dangerous(perm) ==
                PermissionFindings(found, "DANGEROUS_PERMISSION", "MEDIUM",
                                   "dangerous permission: ", perm)
            unused(perm) ==
                PermissionFindings(found, "UNUSED_PERMISSION", "LOW",
                                   "unused permission: ", perm)
        IN /\ \A i \in DOMAIN declared :
                /\ Cardinality(dangerous(declared[i]))
                      = IF declared[i] = "android.permission.CAMERA" THEN 1 ELSE 0
                /\ Cardinality(unused(declared[i]))
                      = IF Referenced(project, declared[i]) THEN 0 ELSE 1
           /\ \A k \in DOMAIN found :
                \E i \in DOMAIN declared : k \in dangerous(declared[i]) \cup unused(declared[i])

\* CAMERA, dangerous and not detected as referenced.
C12_Witness ==
    /\ lastCall.op = "analyze_permissions"
    /\ Returned(lastCall.out)
    /\ \E i \in DOMAIN project.manifest.permissions :
          project.manifest.permissions[i] = "android.permission.CAMERA"
    /\ ~Referenced(project, "android.permission.CAMERA")
    /\ Len(lastCall.out.value.vulnerabilities) >= 2

\* The rules of a loaded catalog.
CatalogRules(catalog) == { catalog[j] : j \in DOMAIN catalog }

\* C13: the rules analyze_java_code reports for are those of the catalog
\* loaded into patterns: every SENSITIVE_DATA finding it returns is of a
\* rule of the catalog, and a rule of the catalog that matches a line of a
\* file read has a finding for that line.
C13_RulesAreLoadedCatalog ==
    (lastCall.op = "analyze_java_code" /\ Returned(lastCall.out)) =>
        LET found == lastCall.out.value
            java == project.java
        IN /\ \A k \in DOMAIN found :
                found[k].type = "SENSITIVE_DATA" =>
                    \E r \in CatalogRules(patterns) :
                        found[k].description = "sensitive data: " \o r
           /\ \A id \in Scanned(java) :
                LET content == FileContent(java.files[id])
                IN \A i \in DOMAIN content : \A r \in CatalogRules(patterns) \cap Rules :
                      PatternMatches(r, content[i]) =>
                          ReportedAt(found, RelativePath(id), i, r) # {}

\* The positions of the WebView findings of a list for a file.
WebviewFindings(vulns, id) ==
    { k \in DOMAIN vulns :
        /\ vulns[k].type = "WEBVIEW_INSECURE"
        /\ vulns[k].file = FullPath(id) }

EnablesScript(content) == ContentHas(content, "setJavaScriptEnabled(true)")

DisablesFileAccess(content) == ContentHas(content, "setAllowFileAccess(false)")

\* The file kinds of the catalogue that have a WebView finding.
FlaggedKinds == {"Browser", "FieldBrowser"}

\* C14: in what analyze_java_code returns, a file read has one WebView
\* finding if its text contains WebView and setJavaScriptEnabled(true) and
\* does not contain setAllowFileAccess(false), and none otherwise; the
\* finding is HIGH; no WebView finding is returned for anything else.
C14_WebviewFindingNeedsWebViewText ==
    (lastCall.op = "analyze_java_code" /\ Returned(lastCall.out)) =>
        LET found == lastCall.out.value
            java == project.java
        IN /\ \A id \in Scanned(java) :
                LET content == FileContent(java.files[id])
                IN /\ Cardinality(WebviewFindings(found, id))
                        = IF /\ ContentHas(content, "WebView")
                             /\ EnablesScript(content)
                             /\ ~DisablesFileAccess(content)
                          THEN 1 ELSE 0
                   /\ Cardinality(WebviewFindings(found, id))
                        = IF java.files[id] \in FlaggedKinds THEN 1 ELSE 0
                   /\ \A k \in WebviewFindings(found, id) : found[k].severity = "HIGH"
           /\ \A k \in DOMAIN found :
                found[k].type = "WEBVIEW_INSECURE" =>
                    \E id \in Scanned(java) : k \in WebviewFindings(found, id)

\* A file whose only mention of WebView is inside the name mWebView is
\* flagged.
C14_Witness ==
    /\ lastCall.op = "analyze_java_code"
    /\ Returned(lastCall.out)
    /\ project.java.files[1] = "FieldBrowser"
    /\ Cardinality(WebviewFindings(lastCall.out.value, 1)) = 1

\* C14 as stated: a file read has one HIGH WebView finding if it contains
\* setJavaScriptEnabled(true) and not setAllowFileAccess(false), and none
\* otherwise, whatever else it contains.
C14_WebviewFindingIffScriptAndFileAccess ==
    (lastCall.op = "analyze_java_code" /\ Returned(lastCall.out)) =>
        \A id \in Scanned(project.java) :
            LET content == FileContent(project.java.files[id])
            IN Cardinality(WebviewFindings(lastCall.out.value, id))
                  = IF EnablesScript(content) /\ ~DisablesFileAccess(content)
                    THEN 1 ELSE 0

NoSummary ==
    [total_vulnerabilities |-> 0, high_severity |-> 0, medium_severity |-> 0,
     low_severity |-> 0]

====
